---- MODULE Spec2Model ----
(***************************************************************************)
(* Starlink pass tracker (ThatRick/WebApps, starlink/src/orbit): the       *)
(* satellite propagator wrapper, the coarse/fine pass finder, the batch    *)
(* generator findPasses, OrbitManager.calculatePasses and the visibility   *)
(* rating of solar.ts.                                                     *)
(*                                                                         *)
(* Representation.                                                         *)
(*  - Dates are integers, milliseconds since the epoch (Date.getTime()).   *)
(*  - Angles and ranges are JS numbers in the code; here they are fixed    *)
(*    point integers in TENTHS (tenths of a degree, tenths of a km), so    *)
(*    that Math.round has something to round.                              *)
(*    The visibility rating is held in thirty-sixths of a point, which     *)
(*    tells a double just below a half from the half.                      *)
(*  - "T | null" values are sequences of length at most one.               *)
(*  - The SGP4 library (satellite.js) is outside the repository: a TLE     *)
(*    record carries the outcome of twoline2satrec (parse), the            *)
(*    inclination it encodes and the observer-relative track that          *)
(*    propagation yields for it.                                           *)
(***************************************************************************)
EXTENDS Integers, Sequences, FiniteSets, TLC

VARIABLES
    tleDataset,        \* OrbitManager.tleDataset (TLEDataset | null)
    calculatedPasses,  \* OrbitManager.calculatedPasses: reference to an array
    heap,              \* the arrays allocated by calculatePasses, by reference
    run,               \* the calculatePasses invocations (async frames)
    clock,             \* the last value new Date() returned
    microtasks,        \* the microtask queue: the calls whose for-await loop
                       \* has a reaction pending, in the order they run
    userCode,          \* while reactions are pending: whether code of the
                       \* page (a caller, a progress callback) has run in
                       \* the current task, so that reactions of its own
                       \* can run among them
    scan,              \* one findSatellitePasses invocation, statement by statement
    prop,              \* one SatellitePropagator object and the calls made on it
    vis                \* the last calculateVisibilityRating call and its result

vars == <<tleDataset, calculatedPasses, heap, run, clock, microtasks,
          userCode, scan, prop, vis>>

----------------------------------------------------------------------------
(* Bounds of the model *)

MaxLegs == 3        \* legs of a satellite track in the single-satellite scan
NumMarks == 3       \* evenly spaced instants at which a track may change
HorizonSteps == 2   \* coarse steps in the longest search interval
MaxSats == 2        \* satellites in a batch
MaxRuns == 2        \* calculatePasses invocations
MaxCalls == 3       \* method calls made on one propagator object
MaxElevationSteps == 1000  \* satellite elevations up to this many steps of 0.1 degrees

----------------------------------------------------------------------------
(* Optional values *)

None == <<>>
Some(x) == <<x>>
IsSome(o) == Len(o) > 0
Get(o) == o[1]

(* JavaScript arithmetic *)

\* Math.round(n / d) for d > 0: floor(n/d + 0.5)
MathRoundRatio(n, d) == (2 * n + d) \div (2 * d)

\* Math.round of a number held in tenths
MathRound(tenths) == MathRoundRatio(tenths, 10)

Abs(x) == IF x < 0 THEN -x ELSE x

\* Date.prototype.toISOString: the instant broken into calendar fields
\* (the day is kept as a day number since the epoch).
toISOString(t) ==
    [day  |-> t \div 86400000,
     hour |-> (t % 86400000) \div 3600000,
     min  |-> (t % 3600000) \div 60000,
     sec  |-> (t % 60000) \div 1000,
     ms   |-> t % 1000]

\* new Date(isoString).getTime()
DateParse(iso) ==
    iso.day * 86400000 + iso.hour * 3600000 + iso.min * 60000
        + iso.sec * 1000 + iso.ms

----------------------------------------------------------------------------
(* coordinates.ts *)

Directions == <<"N", "NE", "E", "SE", "S", "SW", "W", "NW">>

\* (variant: the half-sector offset is left out)
azimuthToDirection_NoOffset(azimuth) ==
    Directions[((azimuth \div 45) % 8) + 1]

\* a % b of JavaScript for b > 0: the remainder has the sign of a
JSRemainder(a, b) == IF a >= 0 THEN a % b ELSE 0 - ((0 - a) % b)

\* index = Math.floor((azimuth + 22.5) / 45) % 8, azimuth an integer here;
\* directions[index] is the value undefined (here the string "undefined")
\* when the index is negative
azimuthToDirection(azimuth) ==
    LET index == JSRemainder((2 * azimuth + 45) \div 90, 8)
    IN  IF index \in 0..(Len(Directions) - 1)
        THEN Directions[index + 1]
        ELSE "undefined"

----------------------------------------------------------------------------
(* Constants of calculator.ts *)

coarseStep == 5 * 60 * 1000
fineStep == 10 * 1000

\* (variant: the window is extended by 3 minutes on each side)
refineMargin_ThreeMinutes == 3 * 60 * 1000

refineMargin == 2 * 60 * 1000
tzOffset == 2 * 60 * 60 * 1000

----------------------------------------------------------------------------
(* Satellite positions and tracks *)

\* What satellite.propagate and the coordinate functions yield at one
\* instant: no result, or elevation/azimuth/distance/altitude in tenths
\* (the altitude is the one that elevation and distance imply:
\* elevation = atan2(altitude, ground distance), distance^2 = ground
\* distance^2 + altitude^2).
PosBelow == [ok |-> TRUE,  elevation |-> 52,  azimuth |-> 1799, distance |-> 14000,
             altitude |-> 1269]
PosAtMin == [ok |-> TRUE,  elevation |-> 104, azimuth |-> 1126, distance |-> 14996,
             altitude |-> 2707]
PosHigh  == [ok |-> TRUE,  elevation |-> 455, azimuth |-> 3596, distance |-> 7000,
             altitude |-> 4993]
PosFar   == [ok |-> TRUE,  elevation |-> 600, azimuth |-> 900,  distance |-> 15004,
             altitude |-> 12994]
PosFail  == [ok |-> FALSE, elevation |-> 0,   azimuth |-> 0,    distance |-> 0,
             altitude |-> 0]

Kinds == {PosBelow, PosAtMin, PosHigh, PosFar, PosFail}

\* Instants at which a track may change, all off the 10 s sampling grid:
\* evenly spaced ones, two that enclose the single sample at 5 min, and one
\* more 10 s later.  (The first leg of a track holds from the beginning of
\* time.)
MarkStep == 250 * 1000
MarkOffset == 125 * 1000
Marks == { MarkOffset + k * MarkStep : k \in 0..(NumMarks - 1) }
            \cup { 5 * 60 * 1000 - 5000, 5 * 60 * 1000 + 5000,
                   5 * 60 * 1000 + 15000 }

RECURSIVE SortedSeq(_)
SortedSeq(S) ==
    IF S = {} THEN <<>>
    ELSE LET m == CHOOSE x \in S : \A y \in S : x <= y
         IN  <<m>> \o SortedSeq(S \ {m})

\* A track is a sequence of legs; leg i holds from the end of leg i-1 until
\* its own "until"; after the last leg the satellite is below the threshold.
\* (Two consecutive legs differ, and the last one differs from what follows
\* it: the same track is not listed twice.)
LegKinds(n) ==
    { k \in [1..n -> Kinds] :
        /\ k[n] # PosBelow
        /\ \A i \in 1..(n - 1) : k[i] # k[i + 1] }

TracksOfLen(n) ==
    UNION { { [i \in 1..n |-> [until |-> SortedSeq(S)[i], pos |-> k[i]]] :
                k \in LegKinds(n) } :
            S \in { T \in SUBSET Marks : Cardinality(T) = n } }

Tracks(maxLegs) == UNION { TracksOfLen(n) : n \in 1..maxLegs }

RECURSIVE PositionOnTrack(_, _, _)
PositionOnTrack(track, i, t) ==
    IF i > Len(track) THEN PosBelow
    ELSE IF t < track[i].until THEN track[i].pos
    ELSE PositionOnTrack(track, i + 1, t)

----------------------------------------------------------------------------
(* solar.ts: calculateSolarPosition, isSatelliteIlluminated.  Both are     *)
(* trigonometric; they are tabulated here over the instants, the observer  *)
(* and the altitudes of this model, and are not defined elsewhere.         *)

\* The sun's elevation that calculateSolarPosition computes every minute
\* from 1969-12-31T23:55:00Z to 1970-01-01T00:25:00Z, in ten-thousandths of a
\* degree, for the observer at 62.2 N 25.7 E
SunElevationNorth ==
    <<-476938, -476296, -475648, -474995, -474336, -473672,
      -473003, -472328, -471647, -470962, -470271, -469575,
      -468873, -468167, -467455, -466738, -466016, -465289,
      -464557, -463820, -463078, -462331, -461579, -460823,
      -460061, -459295, -458524, -457748, -456967, -456182,
      -455392>>

SunElevationTable(lat, lon) ==
    CASE lat = 622 /\ lon = 257 -> SunElevationNorth

SunTableStart == 0 - 5 * 60 * 1000
SunTableStep == 60 * 1000

\* calculateSolarPosition(date, lat, lon)[0] in tenths of a degree.  The
\* code takes the instant to the whole second (julianDate reads
\* getUTCSeconds); within a minute of the table the elevation is
\* interpolated, and the result is rounded to the nearest tenth (it is the
\* code's value to the nearest tenth at every second of the half hour).
calculateSolarPosition(date, lat, lon) ==
    LET table == SunElevationTable(lat, lon)
        since == date - SunTableStart
        k == IF since = (Len(table) - 1) * SunTableStep
             THEN Len(table) - 1
             ELSE (since \div SunTableStep) + 1
        seconds == (since - (k - 1) * SunTableStep) \div 1000
        perStep == SunTableStep \div 1000
    IN  MathRoundRatio(table[k] * perStep + (table[k + 1] - table[k]) * seconds,
                       1000 * perStep)

\* line 79: -asin(EARTH_RADIUS_KM / (EARTH_RADIUS_KM + satAlt)) in degrees
\* (-78.658, -73.585, -68.022, -56.160), at the altitudes 126.9, 270.7,
\* 499.3 and 1299.4 km of the model's positions.  The angle is taken down
\* to the tenth below it, so that a sun elevation in tenths is above the
\* angle exactly when it is above this value.
EarthShadowAngle(satAlt) ==
    CASE satAlt = 1269 -> -787
      [] satAlt = 2707 -> -736
      [] satAlt = 4993 -> -681
      [] satAlt = 12994 -> -562

isSatelliteIlluminated(satAlt, sunElevation) ==
    sunElevation > EarthShadowAngle(satAlt)

----------------------------------------------------------------------------
(* solar.ts: calculateVisibilityRating.  Elevations are in tenths of a     *)
(* degree.  The rating before rounding is dark + min(50, e/90 * 50) with   *)
(* e in degrees: for e in tenths the exact value is a multiple of 1/18.    *)
(* The code computes it in IEEE doubles, and where the exact value is a    *)
(* half (k + 1/2) the double can lie just below it, which Math.round       *)
(* shows.  The values are therefore held in thirty-sixths of a point: a    *)
(* double equal to n/18, or as near to it as doubles are away from a half, *)
(* is 2n, a double just below the half n/18 is 2n - 1.                     *)

\* lines 113-121: the observer darkness component
DarknessPoints(sunElevation) ==
    IF sunElevation <= -180 THEN 50
    ELSE IF sunElevation <= -120 THEN 40
    ELSE IF sunElevation <= -60 THEN 25
    ELSE IF sunElevation < 0 THEN 10
    ELSE 0

\* The elevations between -110 and 110 degrees at which (satElevation / 90)
\* * 50 is a half in exact arithmetic and the double lies below it: 6.3
\* gives 3.4999999999999996, -49.5 gives -27.500000000000004.
ElevationsBelowHalf == {-1017, -999, -495, -387, -261, -27, 63, 513, 711, 801}

\* line 125: Math.min(50, (satElevation / 90) * 50), in thirty-sixths
ElevationThirtySixths(satElevation) ==
    IF satElevation >= 50 * 18 THEN 50 * 36
    ELSE IF satElevation \in ElevationsBelowHalf THEN 2 * satElevation - 1
    ELSE 2 * satElevation

\* The least darkness component whose addition at line 125 rounds a double
\* just below a half up to the half (10 + 3.4999999999999996 is 13.5); 51
\* where none of 10, 25, 40, 50 does.
AbsorbingDarkness(satElevation) ==
    IF satElevation \in {-27, 63, 513} THEN 10
    ELSE IF satElevation \in {711, 801} THEN 25
    ELSE IF satElevation = -261 THEN 40
    ELSE 51

\* the local "rating" after line 125, in thirty-sixths
RatingThirtySixths(sunElevation, satElevation) ==
    LET dark == DarknessPoints(sunElevation)
        sum == 36 * dark + ElevationThirtySixths(satElevation)
    IN  IF sum % 2 = 1 /\ dark >= AbsorbingDarkness(satElevation)
        THEN sum + 1
        ELSE sum

\* lines 128-137, rating in thirty-sixths
CategoryOf(rating36) ==
    IF rating36 >= 75 * 36 THEN "Excellent"
    ELSE IF rating36 >= 50 * 36 THEN "Good"
    ELSE IF rating36 >= 25 * 36 THEN "Fair"
    ELSE "Poor"

\* (variant: the illumination flag is not looked at)
calculateVisibilityRating_IgnoreIllumination(sunElevation, satIlluminated, satElevation) ==
    LET rating36 == RatingThirtySixths(sunElevation, satElevation)
    IN  [rating        |-> MathRoundRatio(rating36, 36),
         category      |-> CategoryOf(rating36),
         isIlluminated |-> satIlluminated,
         sunElevation  |-> sunElevation]

\* (variant: the category is taken from the rounded rating)
calculateVisibilityRating_CategoryOfRounded(sunElevation, satIlluminated, satElevation) ==
    IF ~satIlluminated
    THEN [rating        |-> 0,
          category      |-> "Poor",
          isIlluminated |-> FALSE,
          sunElevation  |-> sunElevation]
    ELSE LET rating36 == RatingThirtySixths(sunElevation, satElevation)
         IN  [rating        |-> MathRoundRatio(rating36, 36),
              category      |-> CategoryOf(36 * MathRoundRatio(rating36, 36)),
              isIlluminated |-> satIlluminated,
              sunElevation  |-> sunElevation]

calculateVisibilityRating(sunElevation, satIlluminated, satElevation) ==
    IF ~satIlluminated
    THEN [rating        |-> 0,
          category      |-> "Poor",
          isIlluminated |-> FALSE,
          sunElevation  |-> sunElevation]
    ELSE LET rating36 == RatingThirtySixths(sunElevation, satElevation)
         IN  [rating        |-> MathRoundRatio(rating36, 36),
              category      |-> CategoryOf(rating36),
              isIlluminated |-> satIlluminated,
              sunElevation  |-> sunElevation]

----------------------------------------------------------------------------
(* propagator.ts: class SatellitePropagator *)

\* (variant: a satrec with its error flag set is kept)
SatellitePropagator_KeepErrored(tleData) ==
    [name    |-> tleData.name,
     noradId |-> tleData.norad_id,
     satrec  |-> IF tleData.parse \in {"ok", "error"}
                 THEN Some([inclo |-> tleData.inclination,
                            track |-> tleData.track])
                 ELSE None]

\* constructor: satrec stays null when twoline2satrec reports an error
\* (satrec.error) or throws.
SatellitePropagator(tleData) ==
    [name    |-> tleData.name,
     noradId |-> tleData.norad_id,
     satrec  |-> IF tleData.parse = "ok"
                 THEN Some([inclo |-> tleData.inclination,
                            track |-> tleData.track])
                 ELSE None]

isValid(p) == IsSome(p.satrec)

getName(p) == p.name

getOrbitalElements(p) ==
    IF ~IsSome(p.satrec) THEN None
    ELSE Some([inclination |-> Get(p.satrec).inclo])

\* propagate: null for an invalid propagator, for a library error and for
\* an exception caught inside; otherwise the observer-relative position.
propagate(p, date, observerLat, observerLon) ==
    IF ~IsSome(p.satrec) THEN None
    ELSE LET raw == PositionOnTrack(Get(p.satrec).track, 1, date)
         IN  IF ~raw.ok THEN None
             ELSE Some([altitude  |-> raw.altitude,
                        elevation |-> raw.elevation,
                        azimuth   |-> raw.azimuth,
                        distance  |-> raw.distance,
                        time      |-> date])

\* calculateVisibility: the sun at the instant of the position, the
\* satellite's illumination at its altitude, and the rating of its elevation
calculateVisibility(position, observerLat, observerLon) ==
    LET sunElevation == calculateSolarPosition(position.time,
                                               observerLat, observerLon)
        satIlluminated == isSatelliteIlluminated(position.altitude, sunElevation)
    IN  calculateVisibilityRating(sunElevation, satIlluminated,
                                  position.elevation)

\* (variant: only the first inclination test)
couldBeVisible_FirstTestOnly(p, observerLat) ==
    IF ~IsSome(p.satrec) THEN FALSE
    ELSE LET inclination == Get(getOrbitalElements(p)).inclination
             absLat == Abs(observerLat)
         IN  inclination >= absLat /\ inclination <= 1800 - absLat

\* couldBeVisible: both tests of the source, in the source's order.
\* Latitude and inclination are in tenths of a degree.
couldBeVisible(p, observerLat) ==
    IF ~IsSome(p.satrec) THEN FALSE
    ELSE LET elements == getOrbitalElements(p)
             absLat == Abs(observerLat)
         IN  IF ~IsSome(elements) THEN FALSE
             ELSE LET inclination == Get(elements).inclination
                  IN  IF inclination >= absLat /\ inclination <= 1800 - absLat
                      THEN TRUE
                      ELSE IF inclination >= 1800 - absLat \/ inclination <= absLat
                      THEN TRUE
                      ELSE FALSE

----------------------------------------------------------------------------
(* calculator.ts: PassCalculator.refinePass *)

\* (variant: the threshold comparison is dropped)
Qualifies_NoThreshold(position, parameters) ==
    IsSome(position)

\* position && position.elevation >= this.parameters.min_elevation_deg
Qualifies(position, parameters) ==
    IsSome(position) /\ Get(position).elevation >= parameters.min_elevation_deg

RefineInit(searchStart) ==
    [currentTime          |-> searchStart,
     positions            |-> <<>>,
     maxElevation         |-> 0,
     maxElevationTime     |-> None,
     maxElevationPosition |-> None,
     passStartTime        |-> None,
     passEndTime          |-> None]

\* (variant: passEndTime is set together with passStartTime, once)
RefineStep_EndSetOnce(st, position, parameters) ==
    IF Qualifies(position, parameters)
    THEN LET higher == Get(position).elevation > st.maxElevation
             currentTime == st.currentTime
         IN  [currentTime          |-> currentTime + fineStep,
              positions            |-> Append(st.positions, Get(position)),
              passStartTime        |-> IF ~IsSome(st.passStartTime)
                                       THEN Some(currentTime)
                                       ELSE st.passStartTime,
              passEndTime          |-> IF ~IsSome(st.passStartTime)
                                       THEN Some(currentTime)
                                       ELSE st.passEndTime,
              maxElevation         |-> IF higher THEN Get(position).elevation
                                       ELSE st.maxElevation,
              maxElevationTime     |-> IF higher THEN Some(currentTime)
                                       ELSE st.maxElevationTime,
              maxElevationPosition |-> IF higher THEN position
                                       ELSE st.maxElevationPosition]
    ELSE [st EXCEPT !.currentTime = @ + fineStep]

\* (variant: a later sample of equal elevation replaces the peak)
RefineStep_LatestOnTies(st, position, parameters) ==
    IF Qualifies(position, parameters)
    THEN LET higher == Get(position).elevation >= st.maxElevation
             currentTime == st.currentTime
         IN  [currentTime          |-> currentTime + fineStep,
              positions            |-> Append(st.positions, Get(position)),
              passStartTime        |-> IF ~IsSome(st.passStartTime)
                                       THEN Some(currentTime)
                                       ELSE st.passStartTime,
              passEndTime          |-> Some(currentTime),
              maxElevation         |-> IF higher THEN Get(position).elevation
                                       ELSE st.maxElevation,
              maxElevationTime     |-> IF higher THEN Some(currentTime)
                                       ELSE st.maxElevationTime,
              maxElevationPosition |-> IF higher THEN position
                                       ELSE st.maxElevationPosition]
    ELSE [st EXCEPT !.currentTime = @ + fineStep]

\* body of the fine loop for one sample
RefineStep(st, position, parameters) ==
    IF Qualifies(position, parameters)
    THEN LET higher == Get(position).elevation > st.maxElevation
             currentTime == st.currentTime
         IN  [currentTime          |-> currentTime + fineStep,
              positions            |-> Append(st.positions, Get(position)),
              passStartTime        |-> IF ~IsSome(st.passStartTime)
                                       THEN Some(currentTime)
                                       ELSE st.passStartTime,
              passEndTime          |-> Some(currentTime),
              maxElevation         |-> IF higher THEN Get(position).elevation
                                       ELSE st.maxElevation,
              maxElevationTime     |-> IF higher THEN Some(currentTime)
                                       ELSE st.maxElevationTime,
              maxElevationPosition |-> IF higher THEN position
                                       ELSE st.maxElevationPosition]
    ELSE [st EXCEPT !.currentTime = @ + fineStep]

\* while (currentTime <= searchEnd) { ... }: at most n iterations of the
\* loop, in order (the first half of them, then the rest)
RECURSIVE RefineIterations(_, _, _, _, _, _)
RefineIterations(st, n, searchEnd, propagator, observer, parameters) ==
    IF n = 0 \/ st.currentTime > searchEnd THEN st
    ELSE IF n = 1
    THEN RefineStep(st,
                    propagate(propagator, st.currentTime,
                              observer.latitude, observer.longitude),
                    parameters)
    ELSE RefineIterations(
             RefineIterations(st, n \div 2, searchEnd,
                              propagator, observer, parameters),
             n - (n \div 2), searchEnd, propagator, observer, parameters)

\* the whole loop: it ends after (searchEnd - searchStart) / fineStep + 1
\* iterations at most
RefineLoop(searchStart, searchEnd, propagator, observer, parameters) ==
    RefineIterations(RefineInit(searchStart),
                     IF searchStart <= searchEnd
                     THEN ((searchEnd - searchStart) \div fineStep) + 1
                     ELSE 0,
                     searchEnd, propagator, observer, parameters)

\* (variant: one qualifying sample is enough)
RefineReject_OneSample(st) ==
    \/ ~IsSome(st.passStartTime)
    \/ ~IsSome(st.passEndTime)
    \/ ~IsSome(st.maxElevationTime)
    \/ ~IsSome(st.maxElevationPosition)
    \/ Len(st.positions) < 1

\* line 214: nothing found, or fewer than 2 qualifying samples
RefineReject(st) ==
    \/ ~IsSome(st.passStartTime)
    \/ ~IsSome(st.passEndTime)
    \/ ~IsSome(st.maxElevationTime)
    \/ ~IsSome(st.maxElevationPosition)
    \/ Len(st.positions) < 2

\* (variant: the distance of the first sample is tested, not the peak's)
DistanceReject_FirstSample(st, parameters) ==
    st.positions[1].distance > parameters.max_distance_km

\* line 219: distance constraint on the peak sample
DistanceReject(st, parameters) ==
    Get(st.maxElevationPosition).distance > parameters.max_distance_km

\* (variant: without the branch for fewer than 3 samples)
MovementPosition_MiddleOnly(positions) ==
    IF Len(positions) >= 3
    THEN Some(positions[(Len(positions) \div 2) + 1])
    ELSE None

\* (variant: the middle index is taken one too low)
MovementPosition_IndexOneLow(positions) ==
    IF Len(positions) >= 3
    THEN Some(positions[Len(positions) \div 2])
    ELSE IF Len(positions) >= 2
    THEN Some(positions[Len(positions)])
    ELSE None

\* lines 237-251: sample the movement direction is taken from
MovementPosition(positions) ==
    IF Len(positions) >= 3
    THEN Some(positions[(Len(positions) \div 2) + 1])
    ELSE IF Len(positions) >= 2
    THEN Some(positions[Len(positions)])
    ELSE None

formatLocal(date) == toISOString(date + tzOffset)

\* (variant: the duration is measured from the start to the peak)
PassRecord_DurationToPeak(st, propagator, observer) ==
    LET startAzimuth == MathRound(st.positions[1].azimuth)
        movement == MovementPosition(st.positions)
        movementAzimuth == IF IsSome(movement)
                           THEN Some(MathRound(Get(movement).azimuth))
                           ELSE None
        visibility == calculateVisibility(Get(st.maxElevationPosition),
                                          observer.latitude,
                                          observer.longitude)
    IN  [satellite                |-> getName(propagator),
         start_time_utc           |-> toISOString(Get(st.passStartTime)),
         start_time_local         |-> formatLocal(Get(st.passStartTime)),
         max_elevation            |-> MathRound(st.maxElevation),
         max_elevation_time_utc   |-> toISOString(Get(st.maxElevationTime)),
         max_elevation_time_local |-> formatLocal(Get(st.maxElevationTime)),
         end_time_utc             |-> toISOString(Get(st.passEndTime)),
         end_time_local           |-> formatLocal(Get(st.passEndTime)),
         duration_seconds         |-> MathRoundRatio(Get(st.maxElevationTime)
                                          - Get(st.passStartTime), 1000),
         max_distance_km          |-> MathRound(Get(st.maxElevationPosition).distance),
         positions                |-> <<>>,
         visibility_rating        |-> visibility.rating,
         visibility_category      |-> visibility.category,
         start_azimuth            |-> startAzimuth,
         start_direction          |-> azimuthToDirection(startAzimuth),
         movement_azimuth         |-> movementAzimuth,
         movement_direction       |-> IF IsSome(movementAzimuth)
                                      THEN Some(azimuthToDirection(Get(movementAzimuth)))
                                      ELSE None]

\* lines 223-279: the visibility at the peak, the directions and the pass
\* record
PassRecord(st, propagator, observer) ==
    LET startAzimuth == MathRound(st.positions[1].azimuth)
        movement == MovementPosition(st.positions)
        movementAzimuth == IF IsSome(movement)
                           THEN Some(MathRound(Get(movement).azimuth))
                           ELSE None
        visibility == calculateVisibility(Get(st.maxElevationPosition),
                                          observer.latitude,
                                          observer.longitude)
    IN  [satellite                |-> getName(propagator),
         start_time_utc           |-> toISOString(Get(st.passStartTime)),
         start_time_local         |-> formatLocal(Get(st.passStartTime)),
         max_elevation            |-> MathRound(st.maxElevation),
         max_elevation_time_utc   |-> toISOString(Get(st.maxElevationTime)),
         max_elevation_time_local |-> formatLocal(Get(st.maxElevationTime)),
         end_time_utc             |-> toISOString(Get(st.passEndTime)),
         end_time_local           |-> formatLocal(Get(st.passEndTime)),
         duration_seconds         |-> MathRoundRatio(Get(st.passEndTime)
                                          - Get(st.passStartTime), 1000),
         max_distance_km          |-> MathRound(Get(st.maxElevationPosition).distance),
         positions                |-> <<>>,
         visibility_rating        |-> visibility.rating,
         visibility_category      |-> visibility.category,
         start_azimuth            |-> startAzimuth,
         start_direction          |-> azimuthToDirection(startAzimuth),
         movement_azimuth         |-> movementAzimuth,
         movement_direction       |-> IF IsSome(movementAzimuth)
                                      THEN Some(azimuthToDirection(Get(movementAzimuth)))
                                      ELSE None]

refinePass(propagator, approxStart, approxEnd, observer, parameters) ==
    LET searchStart == approxStart - refineMargin
        searchEnd == approxEnd + refineMargin
        st == RefineLoop(searchStart, searchEnd,
                         propagator, observer, parameters)
    IN  IF RefineReject(st) THEN None
        ELSE IF DistanceReject(st, parameters) THEN None
        ELSE Some(PassRecord(st, propagator, observer))

----------------------------------------------------------------------------
(* calculator.ts: PassCalculator.findSatellitePasses *)

\* The locals of findSatellitePasses before the coarse loop.  "refined" is
\* the history of the refinePass calls made so far: the window passed in
\* and the value returned.
CoarseInit(propagator, startTime, endTime) ==
    [propagator    |-> propagator,
     startTime     |-> startTime,
     endTime       |-> endTime,
     currentTime   |-> startTime,
     wasVisible    |-> FALSE,
     passStart     |-> None,
     passPositions |-> <<>>,
     passes        |-> <<>>,
     refined       |-> <<>>,
     pc            |-> "loop"]

\* (variant: the loop body runs once before the condition is tested)
CoarseContinues_BodyFirst(sc) ==
    sc.currentTime <= sc.endTime \/ sc.currentTime = sc.startTime

\* line 113: the condition of the coarse loop
CoarseContinues(sc) == sc.currentTime <= sc.endTime

\* what one refinePass call does to the locals
WithRefined(sc, approxStart, approxEnd, observer, parameters) ==
    LET refinedPass == refinePass(sc.propagator, approxStart, approxEnd,
                                  observer, parameters)
    IN  [sc EXCEPT
           !.passes = IF IsSome(refinedPass) THEN Append(@, Get(refinedPass)) ELSE @,
           !.refined = Append(@, [approxStart |-> approxStart,
                                  approxEnd   |-> approxEnd,
                                  result      |-> refinedPass])]

\* one iteration of the coarse loop (lines 113-149)
CoarseStep(sc, observer, parameters) ==
    LET position == propagate(sc.propagator, sc.currentTime,
                              observer.latitude, observer.longitude)
        next == sc.currentTime + coarseStep
    IN  IF Qualifies(position, parameters)
        THEN IF ~sc.wasVisible
             THEN [sc EXCEPT !.passStart = Some(sc.currentTime),
                             !.passPositions = <<Get(position)>>,
                             !.wasVisible = TRUE,
                             !.currentTime = next]
             ELSE [sc EXCEPT !.passPositions = Append(@, Get(position)),
                             !.currentTime = next]
        ELSE IF sc.wasVisible /\ IsSome(sc.passStart)
             THEN [WithRefined(sc, Get(sc.passStart), sc.currentTime,
                               observer, parameters)
                   EXCEPT !.wasVisible = FALSE,
                          !.passStart = None,
                          !.passPositions = <<>>,
                          !.currentTime = next]
             ELSE [sc EXCEPT !.currentTime = next]

\* (variant: a run still open after the loop is refined up to the sample
\* that ended the loop)
CoarseTail_UpToCurrentTime(sc, observer, parameters) ==
    IF sc.wasVisible /\ IsSome(sc.passStart)
    THEN [WithRefined(sc, Get(sc.passStart), sc.currentTime, observer, parameters)
          EXCEPT !.pc = "done"]
    ELSE [sc EXCEPT !.pc = "done"]

\* (variant: a run still open after the loop is dropped)
CoarseTail_Discard(sc, observer, parameters) ==
    [sc EXCEPT !.pc = "done"]

\* after the loop (lines 151-164): a run still open is refined up to endTime
CoarseTail(sc, observer, parameters) ==
    IF sc.wasVisible /\ IsSome(sc.passStart)
    THEN [WithRefined(sc, Get(sc.passStart), sc.endTime, observer, parameters)
          EXCEPT !.pc = "done"]
    ELSE [sc EXCEPT !.pc = "done"]

RECURSIVE CoarseLoop(_, _, _)
CoarseLoop(sc, observer, parameters) ==
    IF CoarseContinues(sc)
    THEN CoarseLoop(CoarseStep(sc, observer, parameters), observer, parameters)
    ELSE CoarseTail(sc, observer, parameters)

findSatellitePasses(propagator, startTime, endTime, observer, parameters) ==
    CoarseLoop(CoarseInit(propagator, startTime, endTime),
               observer, parameters).passes

----------------------------------------------------------------------------
(* calculator.ts: PassCalculator.filterCandidateSatellites, findPasses *)

\* (variant: every satellite of the batch is kept)
filterCandidateSatellites_NoFilter(satellites, observer) ==
    satellites

\* the satellites whose propagator is valid and could be visible, in order
filterCandidateSatellites(satellites, observer) ==
    SelectSeq(satellites,
              LAMBDA sat : /\ isValid(SatellitePropagator(sat))
                           /\ couldBeVisible(SatellitePropagator(sat),
                                             observer.latitude))

\* The frame of one calculatePasses call with the findPasses generator it
\* drives: the generator's locals (passes is the array of the satellite
\* being handled, passIndex the position of its for-of loop), the passes it
\* has yielded, and the progress reports its callback received.
RunIdle ==
    [pc |-> "idle", calculator |-> None, satellites |-> <<>>,
     startTime |-> 0, endTime |-> 0, candidates |-> <<>>, index |-> 1,
     satellitesProcessed |-> 0, passesFound |-> 0,
     passes |-> <<>>, passIndex |-> 0,
     emitted |-> <<>>, progress |-> <<>>, result |-> None]

RECURSIVE findPassesAdvance(_)

\* (variant: the loop goes on with the next candidate without suspending)
AfterSatellite_NoYield(fr, propagator, passes) ==
    findPassesAdvance(
        [fr EXCEPT
           !.passes = <<>>,
           !.passIndex = 0,
           !.satellitesProcessed = @ + 1,
           !.progress = Append(@,
              [satellitesProcessed |-> fr.satellitesProcessed + 1,
               totalSatellites     |-> Len(fr.candidates),
               passesFound         |-> fr.passesFound,
               currentSatellite    |-> getName(propagator)]),
           !.index = @ + 1])

\* (variant: satellitesProcessed is not incremented after a scan)
AfterSatellite_NoCount(fr, propagator, passes) ==
    [fr EXCEPT
       !.passes = <<>>,
       !.passIndex = 0,
       !.progress = Append(@,
          [satellitesProcessed |-> fr.satellitesProcessed,
           totalSatellites     |-> Len(fr.candidates),
           passesFound         |-> fr.passesFound,
           currentSatellite    |-> getName(propagator)]),
       !.index = @ + 1,
       !.pc = "timer"]

\* (variant: the report counts the passes of the satellite just finished)
AfterSatellite_OwnPasses(fr, propagator, passes) ==
    [fr EXCEPT
       !.passes = <<>>,
       !.passIndex = 0,
       !.satellitesProcessed = @ + 1,
       !.progress = Append(@,
          [satellitesProcessed |-> fr.satellitesProcessed + 1,
           totalSatellites     |-> Len(fr.candidates),
           passesFound         |-> Len(passes),
           currentSatellite    |-> getName(propagator)]),
       !.index = @ + 1,
       !.pc = "timer"]

\* lines 79-92: after the passes of one satellite were yielded the satellite
\* is counted, progress is reported and the generator suspends on the
\* zero-delay timer
AfterSatellite(fr, propagator, passes) ==
    [fr EXCEPT
       !.passes = <<>>,
       !.passIndex = 0,
       !.satellitesProcessed = @ + 1,
       !.progress = Append(@,
          [satellitesProcessed |-> fr.satellitesProcessed + 1,
           totalSatellites     |-> Len(fr.candidates),
           passesFound         |-> fr.passesFound,
           currentSatellite    |-> getName(propagator)]),
       !.index = @ + 1,
       !.pc = "timer"]

\* lines 74-77: the for-of loop over the passes of one satellite, entering
\* its k-th iteration.  The generator counts the pass and suspends at the
\* yield (pc "yield") until the consumer asks for the next value.
YieldPasses(fr, propagator, passes, k) ==
    IF k > Len(passes)
    THEN AfterSatellite(fr, propagator, passes)
    ELSE [fr EXCEPT !.pc = "yield",
                    !.passes = passes,
                    !.passIndex = k,
                    !.passesFound = @ + 1,
                    !.emitted = Append(@, passes[k])]

\* findPasses from the head of its loop over the candidates up to its next
\* suspension: at a yield (pc "yield"), on the zero-delay timer (pc "timer")
\* or at the generator's end (pc "return").  "emitted" holds the passes
\* yielded so far.
findPassesAdvance(fr) ==
    IF fr.index > Len(fr.candidates)
    THEN [fr EXCEPT !.pc = "return"]
    ELSE LET satTle == fr.candidates[fr.index]
             propagator == SatellitePropagator(satTle)
         IN  IF ~isValid(propagator)
             THEN findPassesAdvance(
                      [fr EXCEPT !.satellitesProcessed = @ + 1,
                                 !.index = @ + 1])
             ELSE YieldPasses(
                      fr, propagator,
                      findSatellitePasses(propagator, fr.startTime, fr.endTime,
                                          Get(fr.calculator).observer,
                                          Get(fr.calculator).parameters),
                      1)

\* findPasses resumed at the yield it is suspended at (the consumer called
\* next())
findPassesResume(fr) ==
    YieldPasses(fr, SatellitePropagator(fr.candidates[fr.index]),
                fr.passes, fr.passIndex + 1)

\* findPasses from its first statement
findPassesStart(calculator, satellites, startTime, endTime) ==
    findPassesAdvance(
        [RunIdle EXCEPT
           !.calculator = Some(calculator),
           !.satellites = satellites,
           !.startTime = startTime,
           !.endTime = endTime,
           !.candidates = filterCandidateSatellites(satellites,
                                                    calculator.observer)])

----------------------------------------------------------------------------
(* orbitManager.ts: OrbitManager *)

\* Array.prototype.sort with the comparator of line 70 (a stable sort)
RECURSIVE InsertByStart(_, _)
InsertByStart(sorted, pass) ==
    IF sorted = <<>> THEN <<pass>>
    ELSE IF DateParse(sorted[Len(sorted)].start_time_utc)
              - DateParse(pass.start_time_utc) > 0
    THEN Append(InsertByStart(SubSeq(sorted, 1, Len(sorted) - 1), pass),
                sorted[Len(sorted)])
    ELSE Append(sorted, pass)

RECURSIVE SortByStart(_)
SortByStart(passes) ==
    IF passes = <<>> THEN <<>>
    ELSE InsertByStart(SortByStart(SubSeq(passes, 1, Len(passes) - 1)),
                       passes[Len(passes)])

\* getPassesData: "passes" is the array this.calculatedPasses refers to
getPassesData(dataset, ref, array) ==
    [observer     |-> dataset.observer,
     parameters   |-> dataset.parameters,
     total_passes |-> Len(array),
     passes       |-> ref]

\* The horizons, in twelfths of an hour from -24 to 590, at which the double
\* hoursAhead * 60 * 60 * 1000 of line 55 lies one unit in the last place
\* below the whole number of milliseconds (49/12 h gives
\* 14699999.999999998); at every other horizon of that range it is the
\* whole number.
ProductsBelow ==
    {49, 98, 101, 193, 196, 199, 202, 386, 389, 392, 395, 398, 401, 404, 407}

\* the least power of two, from p on, that is above x
RECURSIVE BinadeEnd(_, _)
BinadeEnd(x, p) == IF x < p THEN p ELSE BinadeEnd(x, 2 * p)

\* endTime - now of line 55 for now >= 0: new Date(now.getTime() +
\* hoursAhead * 60 * 60 * 1000), hoursAhead given in twelfths of an hour.
\* The sum is a double and new Date truncates it: a product just below the
\* whole number loses a millisecond as long as the sum stays in the
\* product's binade, where it keeps the fraction; above it the sum rounds to
\* the whole number.
HorizonMs(now, hoursAhead12) ==
    LET exact == hoursAhead12 * 5 * 60 * 1000
    IN  IF /\ hoursAhead12 \in ProductsBelow
           /\ now + exact <= BinadeEnd(exact, 1)
        THEN exact - 1
        ELSE exact

----------------------------------------------------------------------------
(* Inputs *)

Observer(lat) == [latitude |-> lat, longitude |-> 257, elevation_m |-> 100,
                  location_name |-> "Jyvaskyla"]

Latitudes == {622, -335}

\* min_elevation_deg and max_distance_km are JS numbers: whole and
\* fractional values (in tenths)
MinElevations == <<100, 104>>
MaxDistances == <<15000, 14997>>

ParameterSets ==
    { [min_elevation_deg |-> MinElevations[k],
       max_distance_km |-> MaxDistances[k], hours_ahead |-> 24] : k \in 1..2 }

\* search intervals of the single-satellite scan: startTime, endTime (the
\* last one ends before it starts)
ScanIntervals ==
    { <<0, HorizonSteps * coarseStep>>,
      <<0, HorizonSteps * coarseStep - 110 * 1000>>,
      <<coarseStep, coarseStep - fineStep>> }

Idle == [pc |-> "idle"]

----------------------------------------------------------------------------
(* Specification SpecScan: findSatellitePasses on one valid propagator,    *)
(* one coarse iteration per step.                                          *)

InitScan ==
    /\ \E par \in ParameterSets, tr \in Tracks(MaxLegs) :
          tleDataset = Some([observer   |-> Observer(622),
                             parameters |-> par,
                             satellites |-> << [name        |-> "STARLINK-1",
                                                norad_id    |-> "44713",
                                                parse       |-> "ok",
                                                inclination |-> 530,
                                                track       |-> tr] >>])
    /\ \E iv \in ScanIntervals :
          scan = CoarseInit(SatellitePropagator(Get(tleDataset).satellites[1]),
                            iv[1], iv[2])
    /\ calculatedPasses = 0
    /\ heap = <<>>
    /\ run = <<>>
    /\ clock = 0
    /\ microtasks = <<>>
    /\ userCode = FALSE
    /\ prop = Idle
    /\ vis = Idle

\* while (currentTime <= endTime) { ... }
ScanStep ==
    /\ scan.pc = "loop"
    /\ CoarseContinues(scan)
    /\ scan' = CoarseStep(scan, Get(tleDataset).observer,
                          Get(tleDataset).parameters)
    /\ UNCHANGED <<tleDataset, calculatedPasses, heap, run, clock, microtasks,
                   userCode, prop, vis>>

\* the loop condition fails: handle an open run and return
ScanTail ==
    /\ scan.pc = "loop"
    /\ ~CoarseContinues(scan)
    /\ scan' = CoarseTail(scan, Get(tleDataset).observer,
                          Get(tleDataset).parameters)
    /\ UNCHANGED <<tleDataset, calculatedPasses, heap, run, clock, microtasks,
                   userCode, prop, vis>>

NextScan == ScanStep \/ ScanTail

SpecScan == InitScan /\ [][NextScan]_vars

----------------------------------------------------------------------------
(* Specification Spec: one OrbitManager, its dataset, and calculatePasses  *)
(* calls that may overlap.  A step is a piece of code that runs without    *)
(* returning to the event loop: the synchronous part of a call, one        *)
(* reaction of a for-await loop (a microtask), the completion of           *)
(* loadTLEData, or a timer callback with the resumption it causes.  Tasks  *)
(* (timer callbacks, the completion of a fetch) run only when the          *)
(* microtask queue is empty; a call can be made at any point, from a new   *)
(* task or from a reaction of the current one.                             *)

SatNames == <<"STARLINK-1", "STARLINK-2", "STARLINK-3", "STARLINK-4">>

\* Kinds of records: one that parses, with an inclination above the
\* observer's latitude and two visible stretches; one that parses, with an
\* inclination below it and a sample at which propagation fails; and one
\* that does not parse (the lines of such a record still describe an orbit;
\* the two ways parsing fails leave the same propagator and are both
\* exercised in SpecProp).
TLEKinds ==
    << [parse |-> "ok", inclination |-> 974,
        track |-> <<[until |-> 205000, pos |-> PosHigh],
                    [until |-> 465000, pos |-> PosBelow],
                    [until |-> 735000, pos |-> PosHigh]>>],
       [parse |-> "ok", inclination |-> 530,
        track |-> <<[until |-> 175000, pos |-> PosBelow],
                    [until |-> 475000, pos |-> PosHigh],
                    [until |-> 625000, pos |-> PosFail]>>],
       [parse |-> "error", inclination |-> 530,
        track |-> <<[until |-> 325000, pos |-> PosHigh]>>] >>

TLERecord(i, kind) ==
    [name |-> SatNames[i], norad_id |-> SatNames[i], parse |-> kind.parse,
     inclination |-> kind.inclination, track |-> kind.track]

\* The files served as starlink-tle-data.json: MaxSats records whose kinds
\* follow each other in the order above, starting with either of the kinds
\* that parse.
Batches ==
    { [i \in 1..MaxSats |->
          TLERecord(i, TLEKinds[((first + i - 2) % Len(TLEKinds)) + 1])] :
      first \in 1..2 }

Datasets ==
    { [observer   |-> Observer(lat),
       parameters |-> [min_elevation_deg |-> 100, max_distance_km |-> 15000,
                       hours_ahead |-> 24],
       satellites |-> b] : lat \in {622}, b \in Batches }

\* values of new Date() at the start of a run
Nows == {0, 150 * 1000}

Init ==
    /\ tleDataset = None
    /\ calculatedPasses = 1
    /\ heap = << <<>> >>
    /\ run = [r \in 1..MaxRuns |-> RunIdle]
    /\ clock = 0
    /\ microtasks = <<>>
    /\ userCode = FALSE
    /\ scan = Idle
    /\ prop = Idle
    /\ vis = Idle

\* loadTLEData completes: this.tleDataset is replaced by the dataset served
\* as starlink-tle-data.json (line 29), whether or not one was loaded before
\* and whether or not runs are suspended on their timers.  The assignment
\* follows the completion of a fetch, which is a task.
LoadTLEData ==
    /\ microtasks = <<>>
    /\ \E ds \in Datasets : tleDataset' = Some(ds)
    /\ UNCHANGED <<calculatedPasses, heap, run, clock, microtasks, userCode,
                   scan, prop, vis>>

\* A generator suspended at a yield or ended has settled the promise the
\* for-await loop of its call waits for: the reaction of the loop is queued.
Queued(fr) == fr.pc \in {"yield", "return"}

Enqueue(queue, r, fr) == IF Queued(fr) THEN Append(queue, r) ELSE queue

\* calculatePasses(hoursAhead, onProgress) is called: it throws when no
\* dataset is loaded; otherwise it reads the clock, replaces
\* this.calculatedPasses by a new array (line 57) and starts findPasses,
\* which runs synchronously to its first yield, to its suspension on the
\* timer or to its end.  The call is made by code of the page: in a new
\* task, or in a reaction of a task in which such code has run.
CalculatePasses(r) ==
    /\ microtasks = <<>> \/ userCode
    /\ run[r].pc = "idle"
    /\ \A q \in 1..(r - 1) : run[q].pc # "idle"
    /\ IF ~IsSome(tleDataset)
       THEN /\ run' = [run EXCEPT ![r].pc = "failed"]
            /\ UNCHANGED <<calculatedPasses, heap, clock, microtasks, userCode>>
       ELSE \E now \in Nows :
              LET fr == findPassesStart(
                            [observer   |-> Get(tleDataset).observer,
                             parameters |-> Get(tleDataset).parameters],
                            Get(tleDataset).satellites,
                            now, now + HorizonMs(now, HorizonSteps))
              IN  /\ now >= clock
                  /\ clock' = now
                  /\ calculatedPasses' = Len(heap) + 1
                  /\ heap' = Append(heap, <<>>)
                  /\ run' = [run EXCEPT ![r] = fr]
                  /\ microtasks' = Enqueue(microtasks, r, fr)
                  /\ userCode' = (microtasks' # <<>>)
    /\ UNCHANGED <<tleDataset, scan, prop, vis>>

\* onProgress was called while the generator went from frame fr to frame to
Reported(fr, to) == Len(to.progress) > Len(fr.progress)

\* The reaction of a for-await loop to a yielded pass: the body pushes the
\* pass onto the array this.calculatedPasses refers to now (line 66) and the
\* loop asks for the next value, which resumes the generator up to its next
\* suspension.  Each yield takes the same number of microtask turns to reach
\* its push, so the loops with a pending reaction run in turn.
PushPass ==
    /\ microtasks # <<>>
    /\ run[Head(microtasks)].pc = "yield"
    /\ LET r == Head(microtasks)
           fr == findPassesResume(run[r])
       IN  /\ heap' = [heap EXCEPT ![calculatedPasses] =
                          Append(@, run[r].passes[run[r].passIndex])]
           /\ run' = [run EXCEPT ![r] = fr]
           /\ microtasks' = Enqueue(Tail(microtasks), r, fr)
           /\ userCode' = /\ microtasks' # <<>>
                          /\ userCode \/ Reported(run[r], fr)
    /\ UNCHANGED <<tleDataset, calculatedPasses, clock, scan, prop, vis>>

\* What the end of the generator leads to in calculatePasses: the array
\* this.calculatedPasses refers to is wrapped by getPassesData.
Finish(fr, ref, array) ==
    [fr EXCEPT !.pc = "done",
               !.result = Some(getPassesData(Get(tleDataset), ref, array))]

\* The reaction of a for-await loop to the end of the generator: the array
\* this.calculatedPasses refers to now is sorted in place (line 70) and the
\* call returns getPassesData() (line 77) to its caller.
ReturnPasses ==
    /\ microtasks # <<>>
    /\ run[Head(microtasks)].pc = "return"
    /\ LET r == Head(microtasks)
           sorted == SortByStart(heap[calculatedPasses])
       IN  /\ heap' = [heap EXCEPT ![calculatedPasses] = sorted]
           /\ run' = [run EXCEPT ![r] = Finish(run[r], calculatedPasses, sorted)]
           /\ microtasks' = Tail(microtasks)
           /\ userCode' = (microtasks' # <<>>)
    /\ UNCHANGED <<tleDataset, calculatedPasses, clock, scan, prop, vis>>

\* the zero-delay timer of run r fires (a task): findPasses goes on with
\* the next candidate, or ends.  No code of the page runs in this task
\* before the generator reports progress or the call returns.
TimerFires(r) ==
    /\ microtasks = <<>>
    /\ run[r].pc = "timer"
    /\ LET fr == findPassesAdvance(run[r])
       IN  /\ run' = [run EXCEPT ![r] = fr]
           /\ microtasks' = Enqueue(microtasks, r, fr)
    /\ userCode' = FALSE
    /\ UNCHANGED <<tleDataset, calculatedPasses, heap, clock, scan, prop, vis>>

Next ==
    \/ LoadTLEData
    \/ \E r \in 1..MaxRuns : CalculatePasses(r)
    \/ PushPass
    \/ ReturnPasses
    \/ \E r \in 1..MaxRuns : TimerFires(r)

Spec == Init /\ [][Next]_vars

\* The same program with the guarantees of the event loop: the microtask
\* queue is emptied, and a zero-delay timer that has been set fires.
\* TimerFires(r) is enabled when the timer of run r is pending and the queue
\* is empty, and firing it moves the run to its next candidate, so fairness
\* of TimerFires(r) says: no run stays suspended before the same candidate
\* for ever.
TimerPending(r, k) == run[r].pc = "timer" /\ run[r].index = k

SpecFair ==
    /\ Init
    /\ [][Next]_vars
    /\ []<>(microtasks = <<>>)
    /\ \A r \in 1..MaxRuns : \A k \in 2..(MaxSats + 1) :
          []<>(~TimerPending(r, k))

----------------------------------------------------------------------------
(* Specification SpecProp: one SatellitePropagator object, from its        *)
(* construction on, and the method calls made on it.                       *)

PropInclinations == {0, 300, 530, 900, 974, 1800}

PropTLEs ==
    { [name |-> "STARLINK-1", norad_id |-> "44713", parse |-> f,
       inclination |-> i, track |-> tr] :
        f \in {"ok", "error", "throws"}, i \in PropInclinations,
        tr \in TracksOfLen(1) }

\* observerLat is the observer's geodetic latitude, from -90 to 90 degrees
CallLatitudes == Latitudes \cup {0, 900, -900}
CallTimes == {0, 5 * 60 * 1000}

CallResult(method, arg, bool, pos) ==
    [method |-> method, arg |-> arg, bool |-> bool, pos |-> pos]

InitProp ==
    /\ \E tle \in PropTLEs :
          prop = [pc     |-> "live",
                  tle    |-> tle,
                  object |-> SatellitePropagator(tle),
                  calls  |-> 0,
                  last   |-> CallResult("constructor", 0, FALSE, None)]
    /\ tleDataset = None
    /\ calculatedPasses = 0
    /\ heap = <<>>
    /\ run = <<>>
    /\ clock = 0
    /\ microtasks = <<>>
    /\ userCode = FALSE
    /\ scan = Idle
    /\ vis = Idle

Called(result) ==
    /\ prop.pc = "live"
    /\ prop.calls < MaxCalls
    /\ prop' = [prop EXCEPT !.calls = @ + 1, !.last = result]
    /\ UNCHANGED <<tleDataset, calculatedPasses, heap, run, clock, microtasks,
                   userCode, scan, vis>>

CallIsValid ==
    Called(CallResult("isValid", 0, isValid(prop.object), None))

CallCouldBeVisible(observerLat) ==
    Called(CallResult("couldBeVisible", observerLat,
                      couldBeVisible(prop.object, observerLat), None))

CallPropagate(date) ==
    Called(CallResult("propagate", date, FALSE,
                      propagate(prop.object, date, 622, 257)))

CallGetOrbitalElements ==
    Called(CallResult("getOrbitalElements", 0, FALSE,
                      getOrbitalElements(prop.object)))

NextProp ==
    \/ CallIsValid
    \/ \E observerLat \in CallLatitudes : CallCouldBeVisible(observerLat)
    \/ \E date \in CallTimes : CallPropagate(date)
    \/ CallGetOrbitalElements

SpecProp == InitProp /\ [][NextProp]_vars

----------------------------------------------------------------------------
(* Specification SpecVis: calls of calculateVisibilityRating.              *)

\* sun elevations on both sides of every twilight limit
SunElevations ==
    {-900, -181, -180, -179, -121, -120, -119, -61, -60, -59, -1, 0, 1, 900}

\* satellite elevations, in steps of 0.1 degrees, below the horizon too
SatElevations == (0 - MaxElevationSteps)..MaxElevationSteps

\* the arguments of one call
InitVis ==
    /\ \E sunElevation \in SunElevations, satIlluminated \in BOOLEAN,
          satElevation \in SatElevations :
          vis = [pc             |-> "call",
                 sunElevation   |-> sunElevation,
                 satIlluminated |-> satIlluminated,
                 satElevation   |-> satElevation]
    /\ tleDataset = None
    /\ calculatedPasses = 0
    /\ heap = <<>>
    /\ run = <<>>
    /\ clock = 0
    /\ microtasks = <<>>
    /\ userCode = FALSE
    /\ scan = Idle
    /\ prop = Idle

\* the call returns
CallVisibilityRating ==
    /\ vis.pc = "call"
    /\ vis' = [pc             |-> "called",
               sunElevation   |-> vis.sunElevation,
               satIlluminated |-> vis.satIlluminated,
               satElevation   |-> vis.satElevation,
               result         |-> calculateVisibilityRating(
                                      vis.sunElevation, vis.satIlluminated,
                                      vis.satElevation)]
    /\ UNCHANGED <<tleDataset, calculatedPasses, heap, run, clock, microtasks,
                   userCode, scan, prop>>

NextVis == CallVisibilityRating

SpecVis == InitVis /\ [][NextVis]_vars

----------------------------------------------------------------------------
(* Properties of the single-satellite scan (SpecScan) *)

ScanPasses == IF scan.pc = "idle" THEN <<>> ELSE scan.passes
ScanRefined == IF scan.pc = "idle" THEN <<>> ELSE scan.refined
ScanParameters == Get(tleDataset).parameters
ScanObserver == Get(tleDataset).observer

StartOf(pass) == DateParse(pass.start_time_utc)
PeakOf(pass) == DateParse(pass.max_elevation_time_utc)
EndOf(pass) == DateParse(pass.end_time_utc)

\* the samples of the fine grid of a refinement window
FineTimes(approxStart, approxEnd) ==
    { approxStart - refineMargin + k * fineStep :
        k \in 0..((approxEnd - approxStart + 2 * refineMargin) \div fineStep) }

\* the fine samples of a window that are at or above the threshold
QualifyingTimes(call) ==
    { t \in FineTimes(call.approxStart, call.approxEnd) :
        LET position == propagate(scan.propagator, t,
                                  ScanObserver.latitude,
                                  ScanObserver.longitude)
        IN  /\ IsSome(position)
            /\ Get(position).elevation >= ScanParameters.min_elevation_deg }

TrackAt(t) == PositionOnTrack(Get(scan.propagator.satrec).track, 1, t)

\* the qualifying fine samples of highest elevation
PeakTimes(call) ==
    LET Q == QualifyingTimes(call)
        E == { TrackAt(t).elevation : t \in Q }
        top == CHOOSE e \in E : \A f \in E : f <= e
    IN  IF Q = {} THEN {} ELSE { t \in Q : TrackAt(t).elevation = top }

\* C1: every pass record has start time <= peak time <= end time.
C1_StartPeakEnd ==
    \A i \in 1..Len(ScanPasses) :
        /\ StartOf(ScanPasses[i]) <= PeakOf(ScanPasses[i])
        /\ PeakOf(ScanPasses[i]) <= EndOf(ScanPasses[i])

\* C1 witness: a finished scan with a pass whose peak lies strictly inside it.
C1_Witness ==
    /\ scan.pc = "done"
    /\ \E i \in 1..Len(ScanPasses) :
          /\ StartOf(ScanPasses[i]) < PeakOf(ScanPasses[i])
          /\ PeakOf(ScanPasses[i]) < EndOf(ScanPasses[i])

\* C2 as stated: the recorded integer max_elevation is >= min_elevation_deg
\* for every configured threshold value (both sides in tenths of a degree).
C2_Original ==
    \A i \in 1..Len(ScanPasses) :
        ScanPasses[i].max_elevation * 10 >= ScanParameters.min_elevation_deg

\* C2 amended: the recorded integer max_elevation is >= the configured
\* threshold rounded to the nearest integer (the threshold itself when it is
\* a whole number of degrees).
C2_RoundedThreshold ==
    \A i \in 1..Len(ScanPasses) :
        ScanPasses[i].max_elevation >= MathRound(ScanParameters.min_elevation_deg)

\* C2 witness: a pass whose peak sits on a fractional threshold and is
\* recorded as that threshold rounded.
C2_Witness ==
    /\ ScanParameters.min_elevation_deg % 10 # 0
    /\ \E i \in 1..Len(ScanPasses) :
          ScanPasses[i].max_elevation = MathRound(ScanParameters.min_elevation_deg)

\* C3 as stated: the recorded integer max_distance_km is <= the configured
\* max_distance_km for every configured maximum (both sides in tenths of a
\* km), and a window whose peak sample is farther than the maximum is rejected.
C3_Original ==
    /\ \A i \in 1..Len(ScanPasses) :
          ScanPasses[i].max_distance_km * 10 <= ScanParameters.max_distance_km
    /\ \A j \in 1..Len(ScanRefined) :
          (\E t \in PeakTimes(ScanRefined[j]) :
              TrackAt(t).distance
                > ScanParameters.max_distance_km)
            => ~IsSome(ScanRefined[j].result)

\* C3 amended: the recorded integer max_distance_km is <= the configured
\* maximum rounded to the nearest integer (the maximum itself when it is a
\* whole number of km), and a window whose peak sample is farther than the
\* configured maximum yields no pass.
C3_RoundedMaximum ==
    /\ \A i \in 1..Len(ScanPasses) :
          ScanPasses[i].max_distance_km <= MathRound(ScanParameters.max_distance_km)
    /\ \A j \in 1..Len(ScanRefined) :
          (\E t \in PeakTimes(ScanRefined[j]) :
              TrackAt(t).distance
                > ScanParameters.max_distance_km)
            => ~IsSome(ScanRefined[j].result)

\* C3 witness: a window with at least 2 qualifying samples whose peak is too
\* far was refined and rejected, and another window gave a pass.
C3_Witness ==
    /\ \E j \in 1..Len(ScanRefined) :
          /\ Cardinality(QualifyingTimes(ScanRefined[j])) >= 2
          /\ \E t \in PeakTimes(ScanRefined[j]) :
                TrackAt(t).distance
                  > ScanParameters.max_distance_km
          /\ ~IsSome(ScanRefined[j].result)
    /\ Len(ScanPasses) >= 1

\* C4: a refinement window with fewer than 2 fine samples at or above the
\* threshold yields no pass record.
C4_FewerThanTwoSamples ==
    \A j \in 1..Len(ScanRefined) :
        Cardinality(QualifyingTimes(ScanRefined[j])) < 2
          => ~IsSome(ScanRefined[j].result)

\* C4 witness: a window with exactly one qualifying fine sample was refined
\* and gave nothing.
C4_Witness ==
    \E j \in 1..Len(ScanRefined) :
        /\ Cardinality(QualifyingTimes(ScanRefined[j])) = 1
        /\ ~IsSome(ScanRefined[j].result)

\* whether the satellite of the scan qualifies at instant t
QualifiesAt(t) ==
    Qualifies(propagate(scan.propagator, t,
                        ScanObserver.latitude, ScanObserver.longitude),
              ScanParameters)

\* C14: the start and the end of a pass record are the first and the last
\* qualifying fine sample of its window, and duration_seconds is
\* (end - start) / 1000 ms rounded to the nearest integer (half up); it is
\* never negative.
C14_Duration ==
    \A j \in 1..Len(ScanRefined) :
        IsSome(ScanRefined[j].result)
          => LET pass == Get(ScanRefined[j].result)
                 first == StartOf(pass)
                 last == EndOf(pass)
                 seconds == pass.duration_seconds
             IN  /\ \A t \in FineTimes(ScanRefined[j].approxStart,
                                       ScanRefined[j].approxEnd) :
                       /\ t \in {first, last} => QualifiesAt(t)
                       /\ (t < first \/ t > last) => ~QualifiesAt(t)
                 /\ first \in FineTimes(ScanRefined[j].approxStart,
                                        ScanRefined[j].approxEnd)
                 /\ last \in FineTimes(ScanRefined[j].approxStart,
                                       ScanRefined[j].approxEnd)
                 /\ 2 * (seconds * 1000 - (last - first)) <= 1000
                 /\ 2 * ((last - first) - seconds * 1000) < 1000
                 /\ seconds >= 0

\* C14 witness: a pass of positive duration whose start lies inside its
\* window and whose peak comes after its start.
C14_Witness ==
    \E j \in 1..Len(ScanRefined) :
        /\ IsSome(ScanRefined[j].result)
        /\ Get(ScanRefined[j].result).duration_seconds > 0
        /\ StartOf(Get(ScanRefined[j].result))
              > ScanRefined[j].approxStart - refineMargin
        /\ PeakOf(Get(ScanRefined[j].result)) > StartOf(Get(ScanRefined[j].result))

\* the compass label of a whole number of degrees, sector by sector
CompassLabel(azimuth) ==
    IF azimuth <= 22 \/ azimuth >= 338 THEN "N"
    ELSE IF azimuth <= 67 THEN "NE"
    ELSE IF azimuth <= 112 THEN "E"
    ELSE IF azimuth <= 157 THEN "SE"
    ELSE IF azimuth <= 202 THEN "S"
    ELSE IF azimuth <= 247 THEN "SW"
    ELSE IF azimuth <= 292 THEN "W"
    ELSE "NW"

\* C18: in every pass record the direction labels are the compass labels of
\* the recorded azimuths: start_direction of start_azimuth and, when
\* present, movement_direction of movement_azimuth; a movement direction is
\* present exactly when a movement azimuth is.
C18_DirectionLabels ==
    \A i \in 1..Len(ScanPasses) :
        LET pass == ScanPasses[i]
        IN  /\ pass.start_direction = CompassLabel(pass.start_azimuth)
            /\ IsSome(pass.movement_direction) = IsSome(pass.movement_azimuth)
            /\ IsSome(pass.movement_azimuth)
                  => Get(pass.movement_direction)
                       = CompassLabel(Get(pass.movement_azimuth))

\* C18 witness: a pass that starts in one compass sector and moves in
\* another, one of the azimuths being recorded as 360.
C18_Witness ==
    \E i \in 1..Len(ScanPasses) :
        /\ IsSome(ScanPasses[i].movement_direction)
        /\ Get(ScanPasses[i].movement_direction) # ScanPasses[i].start_direction
        /\ 360 \in {ScanPasses[i].start_azimuth,
                     Get(ScanPasses[i].movement_azimuth)}

\* C19: every fine-grid sample between the start and the end of a pass
\* record (inclusive) is at or above the threshold.
C19_Contiguous ==
    \A j \in 1..Len(ScanRefined) :
        IsSome(ScanRefined[j].result)
          => \A t \in FineTimes(ScanRefined[j].approxStart,
                                ScanRefined[j].approxEnd) :
                (/\ StartOf(Get(ScanRefined[j].result)) <= t
                 /\ t <= EndOf(Get(ScanRefined[j].result)))
                  => QualifiesAt(t)

\* C20: the fine-grid sample 10 s before the start of a pass record and the
\* one 10 s after its end do not qualify.
C20_RiseSetCrossings ==
    \A i \in 1..Len(ScanPasses) :
        /\ ~QualifiesAt(StartOf(ScanPasses[i]) - fineStep)
        /\ ~QualifiesAt(EndOf(ScanPasses[i]) + fineStep)

\* the position the propagator of the scan returns at instant t
SampleAt(t) ==
    Get(propagate(scan.propagator, t,
                  ScanObserver.latitude, ScanObserver.longitude))

\* C21: the peak time of a pass record is a qualifying fine sample of its
\* window whose elevation no qualifying sample of the window exceeds and no
\* earlier one equals; max_elevation is that sample's elevation rounded,
\* max_distance_km its range rounded, and the visibility rating and
\* category are those of that sample.
C21_PeakSample ==
    \A j \in 1..Len(ScanRefined) :
        IsSome(ScanRefined[j].result)
          => LET pass == Get(ScanRefined[j].result)
                 peak == PeakOf(pass)
                 grid == FineTimes(ScanRefined[j].approxStart,
                                   ScanRefined[j].approxEnd)
             IN  /\ peak \in grid
                 /\ QualifiesAt(peak)
                 /\ \A t \in grid :
                       QualifiesAt(t)
                         => /\ TrackAt(t).elevation <= TrackAt(peak).elevation
                            /\ t < peak
                                 => TrackAt(t).elevation < TrackAt(peak).elevation
                 /\ pass.max_elevation = MathRound(TrackAt(peak).elevation)
                 /\ pass.max_distance_km = MathRound(TrackAt(peak).distance)
                 /\ pass.max_elevation_time_local = formatLocal(peak)
                 /\ pass.visibility_rating
                      = calculateVisibility(SampleAt(peak), ScanObserver.latitude,
                                            ScanObserver.longitude).rating
                 /\ pass.visibility_category
                      = calculateVisibility(SampleAt(peak), ScanObserver.latitude,
                                            ScanObserver.longitude).category

\* C21 witness: a pass whose peak comes after its start, is followed by a
\* qualifying sample of the same elevation, and whose visibility rating is
\* not the one of its first sample.
C21_Witness ==
    \E j \in 1..Len(ScanRefined) :
        /\ IsSome(ScanRefined[j].result)
        /\ LET pass == Get(ScanRefined[j].result)
           IN  /\ StartOf(pass) < PeakOf(pass)
               /\ QualifiesAt(PeakOf(pass) + fineStep)
               /\ TrackAt(PeakOf(pass) + fineStep).elevation
                    = TrackAt(PeakOf(pass)).elevation
               /\ PeakOf(pass) + fineStep <= EndOf(pass)
               /\ pass.visibility_rating
                    # calculateVisibility(SampleAt(StartOf(pass)),
                                          ScanObserver.latitude,
                                          ScanObserver.longitude).rating

\* the qualifying fine sample of a window that has k qualifying samples
\* before it
NthQualifying(call, k) ==
    LET Q == QualifyingTimes(call)
    IN  CHOOSE t \in Q : Cardinality({ u \in Q : u < t }) = k

\* C24: with n the number of qualifying fine samples of a pass's window,
\* start_azimuth is the rounded azimuth of the first of them, and
\* movement_azimuth is the rounded azimuth of the one at index floor(n/2)
\* (counting from 0) when n >= 3, an index that is neither 0 nor n - 1, and
\* of the last one when n = 2; the direction labels are those of these
\* azimuths.
C24_DirectionSamples ==
    \A j \in 1..Len(ScanRefined) :
        IsSome(ScanRefined[j].result)
          => LET pass == Get(ScanRefined[j].result)
                 call == ScanRefined[j]
                 n == Cardinality(QualifyingTimes(call))
                 mid == n \div 2
             IN  /\ n >= 2
                 /\ pass.start_azimuth
                      = MathRound(TrackAt(NthQualifying(call, 0)).azimuth)
                 /\ pass.start_direction = azimuthToDirection(pass.start_azimuth)
                 /\ IsSome(pass.movement_azimuth)
                 /\ n >= 3
                      => /\ 0 < mid
                         /\ mid < n - 1
                         /\ Get(pass.movement_azimuth)
                              = MathRound(TrackAt(NthQualifying(call, mid)).azimuth)
                 /\ n = 2
                      => Get(pass.movement_azimuth)
                           = MathRound(TrackAt(NthQualifying(call, 1)).azimuth)
                 /\ pass.movement_direction
                      = Some(azimuthToDirection(Get(pass.movement_azimuth)))

\* C24 witness: a finished scan with a pass of exactly 2 qualifying samples
\* of different azimuths.
C24_Witness ==
    /\ scan.pc = "done"
    /\ \E j \in 1..Len(ScanRefined) :
          /\ IsSome(ScanRefined[j].result)
          /\ Cardinality(QualifyingTimes(ScanRefined[j])) = 2
          /\ Get(ScanRefined[j].result).start_azimuth
               # Get(Get(ScanRefined[j].result).movement_azimuth)

\* C25: when the end time is before the start time, the scan of a satellite
\* propagates nothing, refines nothing and ends with an empty result.
C25_ReversedInterval ==
    (scan.pc # "idle" /\ scan.endTime < scan.startTime)
      => /\ ScanPasses = <<>>
         /\ ScanRefined = <<>>
         /\ scan.currentTime = scan.startTime
         /\ ~scan.wasVisible

\* C25 witness: a scan has ended over an interval that ends before it
\* starts, for a satellite that is above the threshold at the start time and
\* for 2 minutes around it.
C25_Witness ==
    /\ scan.pc = "done"
    /\ scan.endTime < scan.startTime
    /\ \A t \in FineTimes(scan.startTime, scan.endTime) : QualifiesAt(t)
    /\ TrackAt(scan.startTime).distance <= ScanParameters.max_distance_km

\* C27: the passes of one scan are disjoint and in chronological order:
\* each pass ends strictly before the next one starts, and the window of
\* each refinePass call ends strictly before the window of the next begins.
C27_PassesDisjoint ==
    /\ \A i \in 1..(Len(ScanPasses) - 1) :
          EndOf(ScanPasses[i]) < StartOf(ScanPasses[i + 1])
    /\ \A j \in 1..(Len(ScanRefined) - 1) :
          ScanRefined[j].approxEnd + refineMargin
            < ScanRefined[j + 1].approxStart - refineMargin

\* C27 witness: a scan gave two passes, the second starting less than 5
\* minutes after the end of the first.
C27_Witness ==
    /\ Len(ScanPasses) >= 2
    /\ StartOf(ScanPasses[2]) - EndOf(ScanPasses[1]) < coarseStep

\* C28: every pass of a scan starts no earlier than 2 minutes before the
\* search interval's start and ends no later than 2 minutes after its end.
C28_WithinMargin ==
    \A i \in 1..Len(ScanPasses) :
        /\ StartOf(ScanPasses[i]) >= scan.startTime - 2 * 60 * 1000
        /\ EndOf(ScanPasses[i]) <= scan.endTime + 2 * 60 * 1000

\* C28 witness: a finished scan with a pass that starts 2 minutes before the
\* interval's start and a pass that ends 2 minutes after its end.
C28_Witness ==
    /\ scan.pc = "done"
    /\ \E i \in 1..Len(ScanPasses) :
          StartOf(ScanPasses[i]) = scan.startTime - 2 * 60 * 1000
    /\ \E i \in 1..Len(ScanPasses) :
          EndOf(ScanPasses[i]) = scan.endTime + 2 * 60 * 1000

\* C29: every pass record carries a movement azimuth and a movement
\* direction.
C29_MovementPresent ==
    \A j \in 1..Len(ScanRefined) :
        IsSome(ScanRefined[j].result)
          => /\ IsSome(Get(ScanRefined[j].result).movement_azimuth)
             /\ IsSome(Get(ScanRefined[j].result).movement_direction)

\* C29 witness: a pass that lasts 10 seconds, from one fine sample to the
\* next, and carries a movement direction.
C29_Witness ==
    \E i \in 1..Len(ScanPasses) :
        /\ ScanPasses[i].duration_seconds * 1000 = fineStep
        /\ IsSome(ScanPasses[i].movement_direction)

\* C30: the start_azimuth and the movement_azimuth of every pass record lie
\* in 0..359.
C30_AzimuthRange ==
    \A i \in 1..Len(ScanPasses) :
        /\ ScanPasses[i].start_azimuth \in 0..359
        /\ IsSome(ScanPasses[i].movement_azimuth)
              => Get(ScanPasses[i].movement_azimuth) \in 0..359

\* the samples of the coarse scan
CoarseTimes ==
    { scan.startTime + k * coarseStep :
        k \in 0..((scan.endTime - scan.startTime) \div coarseStep) }

\* the first sample of the visibility run that the last coarse sample is in
TrailingStart ==
    CHOOSE c \in CoarseTimes :
        /\ \A d \in CoarseTimes : d >= c => QualifiesAt(d)
        /\ (c - coarseStep) \in CoarseTimes => ~QualifiesAt(c - coarseStep)

\* C23: when the last coarse sample of a finished scan qualifies, the last
\* refinePass call was made for the run that sample is in, with the search
\* interval's end as the end of its window; when that window holds at least
\* 2 qualifying fine samples and its peak is within the distance limit, the
\* call gave a pass and that pass is the last one of the scan's result.
C23_TrailingRunEmitted ==
    (/\ scan.pc = "done"
     /\ scan.startTime <= scan.endTime
     /\ \A c \in CoarseTimes : c + coarseStep > scan.endTime => QualifiesAt(c))
      => /\ Len(ScanRefined) >= 1
         /\ LET call == ScanRefined[Len(ScanRefined)]
            IN  /\ call.approxStart = TrailingStart
                /\ call.approxEnd = scan.endTime
                /\ (/\ Cardinality(QualifyingTimes(call)) >= 2
                    /\ \A t \in PeakTimes(call) :
                          TrackAt(t).distance <= ScanParameters.max_distance_km)
                     => /\ IsSome(call.result)
                        /\ Len(ScanPasses) >= 1
                        /\ ScanPasses[Len(ScanPasses)] = Get(call.result)

\* C23 witness: a finished scan whose interval ends between two coarse
\* samples, with a pass from a run still open at the last sample that lasts
\* beyond the interval's end.
C23_Witness ==
    /\ scan.pc = "done"
    /\ \A c \in CoarseTimes : c + coarseStep > scan.endTime => QualifiesAt(c)
    /\ (scan.endTime - scan.startTime) % coarseStep # 0
    /\ Len(ScanPasses) >= 1
    /\ ScanRefined[Len(ScanRefined)].approxEnd = scan.endTime
    /\ IsSome(ScanRefined[Len(ScanRefined)].result)
    /\ EndOf(ScanPasses[Len(ScanPasses)]) > scan.endTime

\* C10: a coarse sample for which propagation fails, lying between two
\* qualifying coarse samples, does not end the visibility run: no refinePass
\* call is made with such a sample as the end of its window.
C10_FailedSampleKeepsRun ==
    \A j \in 1..Len(ScanRefined) :
        LET e == ScanRefined[j].approxEnd
        IN  ~ /\ e + coarseStep <= scan.endTime
              /\ (e - scan.startTime) % coarseStep = 0
              /\ ~IsSome(propagate(scan.propagator, e,
                                   ScanObserver.latitude,
                                   ScanObserver.longitude))
              /\ Qualifies(propagate(scan.propagator, e + coarseStep,
                                     ScanObserver.latitude,
                                     ScanObserver.longitude),
                           ScanParameters)

----------------------------------------------------------------------------
(* Properties of the batch runs (Spec) *)

Runs == IF DOMAIN run = {} THEN {} ELSE 1..MaxRuns
DoneRuns == { r \in Runs : run[r].pc = "done" }

\* the batch, the observer and the parameters findPasses of run r was given
BatchOf(r) == run[r].satellites
ObserverOf(r) == Get(run[r].calculator).observer
ParametersOf(r) == Get(run[r].calculator).parameters

PassesNamed(passes, name) == SelectSeq(passes, LAMBDA p : p.satellite = name)

\* what a scan of satellite i of the batch finds in the interval of run r
ScanOf(r, i) ==
    findSatellitePasses(SatellitePropagator(BatchOf(r)[i]),
                        run[r].startTime, run[r].endTime,
                        ObserverOf(r), ParametersOf(r))

\* the satellites of the batch that the candidate filter of run r eliminated
Eliminated(r) ==
    { i \in 1..Len(BatchOf(r)) :
        \A j \in 1..Len(run[r].candidates) : run[r].candidates[j] # BatchOf(r)[i] }

\* C5: overlapping calculatePasses calls on one OrbitManager do not
\* interfere: the dataset a call returned lists exactly the passes that
\* call's own findPasses run yielded, each once (sorted by start time), and
\* total_passes is their number.
C5_RunsIndependent ==
    \A r \in DoneRuns :
        /\ heap[Get(run[r].result).passes] = SortByStart(run[r].emitted)
        /\ Get(run[r].result).total_passes = Len(run[r].emitted)

\* C6: the candidate filter never eliminates a satellite that would produce
\* a pass: scanning a satellite the filter of a finished run eliminated,
\* over that run's interval, finds no pass.
C6_FilterLosesNothing ==
    \A r \in DoneRuns : \A i \in Eliminated(r) : ScanOf(r, i) = <<>>

\* C6 witness: a finished run over a batch with a satellite the filter
\* eliminated, which yielded a pass of a satellite whose inclination is below
\* the observer's absolute latitude.
C6_Witness ==
    \E r \in DoneRuns : \E i \in 1..Len(BatchOf(r)) :
        /\ Eliminated(r) # {}
        /\ BatchOf(r)[i].parse = "ok"
        /\ BatchOf(r)[i].inclination < Abs(ObserverOf(r).latitude)
        /\ PassesNamed(run[r].emitted, BatchOf(r)[i].name) # <<>>

InvalidSats(r) == { i \in 1..Len(BatchOf(r)) : BatchOf(r)[i].parse # "ok" }

\* C9 as stated: a satellite whose record does not parse contributes no
\* pass, the run completes, and the satellite is counted in the
\* processed-satellite count.
C9_Original ==
    \A r \in DoneRuns :
        /\ \A i \in InvalidSats(r) : PassesNamed(run[r].emitted, BatchOf(r)[i].name) = <<>>
        /\ run[r].satellitesProcessed
             = Cardinality({ i \in 1..Len(BatchOf(r)) :
                              \/ i \in InvalidSats(r)
                              \/ \E j \in 1..Len(run[r].candidates) :
                                    run[r].candidates[j] = BatchOf(r)[i] })

\* C9 amended: a satellite whose record does not parse contributes no pass
\* and does not abort the run; it is dropped by the candidate filter, so it
\* is counted neither as processed nor in the total: when the run ends the
\* processed count equals the number of candidates, every progress report
\* has total = number of candidates, and no candidate is an invalid record.
C9_InvalidSkipped ==
    \A r \in DoneRuns :
        /\ \A i \in InvalidSats(r) :
              /\ PassesNamed(run[r].emitted, BatchOf(r)[i].name) = <<>>
              /\ \A j \in 1..Len(run[r].candidates) :
                    run[r].candidates[j] # BatchOf(r)[i]
        /\ run[r].satellitesProcessed = Len(run[r].candidates)
        /\ Len(run[r].progress) = Len(run[r].candidates)
        /\ \A k \in 1..Len(run[r].progress) :
              /\ run[r].progress[k].totalSatellites = Len(run[r].candidates)
              /\ run[r].progress[k].satellitesProcessed = k

\* C9 witness: a finished run over a batch with a record that does not
\* parse and a record that gave a pass.
C9_Witness ==
    \E r \in DoneRuns :
        /\ InvalidSats(r) # {}
        /\ run[r].emitted # <<>>
        /\ run[r].satellitesProcessed < Len(BatchOf(r))

\* the records of a batch whose track has a sample at which propagation fails
FailingSats(r) ==
    { i \in 1..Len(BatchOf(r)) :
        \E l \in 1..Len(BatchOf(r)[i].track) : ~BatchOf(r)[i].track[l].pos.ok }

\* C11: a findPasses run that is consumed to its end terminates, whatever
\* invalid records and failing samples the batch holds: from some point on no
\* run is suspended or running (each has ended or was never started), and a
\* run that has ended has processed as many satellites as there are
\* candidates.
C11_RunTerminates ==
    /\ [](\A r \in DoneRuns :
             run[r].satellitesProcessed = Len(run[r].candidates))
    /\ <>[](\A r \in 1..MaxRuns : run[r].pc \in {"idle", "failed", "done"})

\* C11 witness: a run has ended over a batch that holds an invalid record and
\* a candidate with a failing propagation sample.
C11_Witness ==
    \E r \in DoneRuns :
        /\ InvalidSats(r) # {}
        /\ \E i \in FailingSats(r) : BatchOf(r)[i].parse = "ok"
        /\ Len(run[r].candidates) >= 1
        /\ run[r].satellitesProcessed = Len(run[r].candidates)

\* the passes of the first k candidates among those a run has yielded
YieldedUpTo(r, k) ==
    SelectSeq(run[r].emitted,
              LAMBDA p : \E j \in 1..k : p.satellite = run[r].candidates[j].name)

\* C12: the progress callback has been invoked once for each candidate that
\* finished, and the k-th invocation reported processed = k, total = the
\* number of candidates, passesFound = the passes yielded up to then and the
\* name of the k-th candidate.
C12_ProgressReports ==
    \A r \in Runs :
        /\ Len(run[r].progress) = run[r].index - 1
        /\ \A k \in 1..Len(run[r].progress) :
              run[r].progress[k]
                = [satellitesProcessed |-> k,
                   totalSatellites     |-> Len(run[r].candidates),
                   passesFound         |-> Len(YieldedUpTo(r, k)),
                   currentSatellite    |-> run[r].candidates[k].name]

\* C12 witness: two reports of one run, each after a satellite with a pass.
C12_Witness ==
    \E r \in Runs :
        /\ Len(run[r].progress) >= 2
        /\ run[r].progress[1].passesFound >= 1
        /\ run[r].progress[2].passesFound > run[r].progress[1].passesFound

\* C26: a findPasses run scans at most one candidate without returning to
\* the event loop (each scan ends with one progress report); after a scan it
\* is suspended on its zero-delay timer, and it leaves that suspension only
\* in a new task, when no microtask is pending: the next candidate's scan
\* belongs to a later task.
C26_YieldBetweenScans ==
    [][\A r \in 1..MaxRuns :
          /\ Len(run'[r].progress) <= Len(run[r].progress) + 1
          /\ Len(run'[r].progress) = Len(run[r].progress) + 1
                => /\ run'[r].pc = "timer"
                   /\ run'[r].index = run[r].index + 1
          /\ (run[r].pc = "timer" /\ run'[r].pc # "timer")
                => microtasks = <<>>]_vars

\* C26 witness: a run is suspended between the scans of its first and its
\* second candidate, and another call, made after it, has run a task
\* meanwhile.
C26_Witness ==
    \E r \in Runs : \E q \in Runs :
        /\ r < q
        /\ run[r].pc = "timer"
        /\ Len(run[r].progress) = 1
        /\ run[r].index <= Len(run[r].candidates)
        /\ run[q].pc = "timer"
        /\ Len(run[q].progress) = 1

SortedByStart(list) ==
    \A i \in 1..(Len(list) - 1) : StartOf(list[i]) <= StartOf(list[i + 1])

Occurrences(list, x) == Cardinality({ i \in 1..Len(list) : list[i] = x })

IsPermutation(a, b) ==
    /\ Len(a) = Len(b)
    /\ \A i \in 1..Len(a) : Occurrences(a, a[i]) = Occurrences(b, a[i])

\* C13: when a calculatePasses call returns, the list of the dataset it
\* returns is a permutation of the passes its finder emitted and is sorted
\* ascending by start time.
C13_SortedPermutation ==
    [][\A r \in 1..MaxRuns :
          (run[r].pc # "done" /\ run'[r].pc = "done")
            => LET list == heap'[Get(run'[r].result).passes]
               IN  /\ IsPermutation(list, run'[r].emitted)
                   /\ SortedByStart(list)]_vars

----------------------------------------------------------------------------
(* Properties of one propagator object (SpecProp) *)

PropLive == prop.pc = "live"

\* C22: couldBeVisible(observerLat) on a valid propagator returns true
\* exactly when the inclination is at least |observerLat| or at least
\* 180 - |observerLat|; a valid record below both bounds is rejected.
C22_InclinationTest ==
    (/\ PropLive
     /\ prop.last.method = "couldBeVisible"
     /\ prop.tle.parse = "ok")
      => prop.last.bool
           = (\/ prop.tle.inclination >= Abs(prop.last.arg)
              \/ prop.tle.inclination >= 1800 - Abs(prop.last.arg))

\* C8: a propagator built from a record whose parsing fails stays invalid:
\* whatever calls were made, isValid() is false, couldBeVisible returned
\* false, and propagate and getOrbitalElements returned no result.
C8_InvalidForLife ==
    (PropLive /\ prop.tle.parse # "ok")
      => /\ ~isValid(prop.object)
         /\ prop.last.method \in {"isValid", "couldBeVisible"}
              => prop.last.bool = FALSE
         /\ prop.last.method \in {"propagate", "getOrbitalElements"}
              => prop.last.pos = None

\* C8 witness: a record that failed to parse, after at least two calls, the
\* last one a propagate at an instant where its track is above the horizon.
C8_Witness ==
    /\ PropLive
    /\ prop.tle.parse # "ok"
    /\ prop.calls >= 2
    /\ prop.last.method = "propagate"
    /\ PositionOnTrack(prop.tle.track, 1, prop.last.arg).ok

----------------------------------------------------------------------------
(* Properties of calculateVisibilityRating (SpecVis) *)

VisCalled == vis.pc = "called"

\* C15: for every input with illuminated = false the result is rating 0 and
\* category "Poor", whatever the sun elevation and the satellite elevation.
C15_NotIlluminatedIsPoor ==
    (VisCalled /\ ~vis.satIlluminated)
      => /\ vis.result.rating = 0
         /\ vis.result.category = "Poor"

\* C15 witness: a call with illuminated = false in full darkness with the
\* satellite high in the sky.
C15_Witness ==
    /\ VisCalled
    /\ ~vis.satIlluminated
    /\ vis.sunElevation <= -180
    /\ vis.satElevation >= 450

\* C16: the returned rating lies in 0..100, the darkness component in 0..50
\* and the elevation component in 0..50 (here 0..1800 thirty-sixths), for
\* every sun elevation and every satellite elevation.
C16_RatingRange ==
    VisCalled
      => /\ vis.result.rating >= 0
         /\ vis.result.rating <= 100
         /\ DarknessPoints(vis.sunElevation) \in 0..50
         /\ ElevationThirtySixths(vis.satElevation) >= 0
         /\ ElevationThirtySixths(vis.satElevation) <= 50 * 36

\* the category the thresholds give for a rating in whole points
CategoryByThresholds(rating) ==
    IF rating >= 75 THEN "Excellent"
    ELSE IF rating >= 50 THEN "Good"
    ELSE IF rating >= 25 THEN "Fair"
    ELSE "Poor"

\* C17 as stated: for an illuminated assessment the returned category is the
\* one the thresholds give for the returned rating.
C17_Original ==
    (VisCalled /\ vis.satIlluminated)
      => vis.result.category = CategoryByThresholds(vis.result.rating)

\* C17 amended: for an illuminated assessment the returned category is the
\* one the thresholds give for the rating before it is rounded (Excellent iff
\* it is >= 75, Good iff 50 <= it < 75, Fair iff 25 <= it < 50, Poor iff it
\* is < 25); the returned rating is within half a point of that value, so it
\* is at least the lower threshold of the returned category and at most the
\* upper one.
C17_CategoryOfUnrounded ==
    (VisCalled /\ vis.satIlluminated)
      => LET rating18 == 18 * DarknessPoints(vis.sunElevation)
                           + (IF vis.satElevation < 900
                              THEN vis.satElevation ELSE 900)
             category == vis.result.category
             rating == vis.result.rating
         IN  /\ (category = "Excellent") = (rating18 >= 75 * 18)
             /\ (category = "Good") = (50 * 18 <= rating18 /\ rating18 < 75 * 18)
             /\ (category = "Fair") = (25 * 18 <= rating18 /\ rating18 < 50 * 18)
             /\ (category = "Poor") = (rating18 < 25 * 18)
             /\ 2 * (18 * rating - rating18) <= 18
             /\ 2 * (rating18 - 18 * rating) <= 18
             /\ category = "Excellent" => rating >= 75
             /\ category = "Good" => (50 <= rating /\ rating <= 75)
             /\ category = "Fair" => (25 <= rating /\ rating <= 50)
             /\ category = "Poor" => rating <= 25

\* C17 witness: an illuminated assessment whose rating rounds up to a
\* threshold that the unrounded rating does not reach.
C17_Witness ==
    /\ VisCalled
    /\ vis.satIlluminated
    /\ vis.result.rating = 75
    /\ vis.result.category = "Good"

====
